---- MODULE Spec2Model ----
(***************************************************************************)
(* Model of geph-autotest (src/src/main.rs): the probe loop of main, the   *)
(* supervisor connect_to_geph and the relay thread send_stderr, together   *)
(* with the geph4-client child processes they spawn, read from, kill and   *)
(* wait on.                                                                *)
(***************************************************************************)
EXTENDS Integers, Sequences, FiniteSets, TLC

(***************************************************************************)
(* Bounds of the model.                                                    *)
(***************************************************************************)
\* connect-mode children spawned in one run of the program
MaxSpawns == 2
\* lines one child writes to its stderr
MaxLines == 2

(***************************************************************************)
(* Text: a line is a sequence of one-byte strings.  "0xFF" stands for a    *)
(* byte that is not valid UTF-8.                                           *)
(***************************************************************************)
\* the literal of main.rs:289
Marker ==
  << "T","U","N","N","E","L","_","M","A","N","A","G","E","R"," ",
     "M","A","I","N"," ","L","O","O","P" >>

\* the texts a child may write, by line id; id 0 is the empty string
LineText ==
  << << "s","t","a","r","t","i","n","g","\n" >>,
     << "[","i","]"," " >> \o Marker \o << ":"," ","u","p","\n" >>,
     << "0xFF","\n" >> >>

Lines == 1..Len(LineText)

EmptyString == 0

Text(l) == IF l = EmptyString THEN << >> ELSE LineText[l]

\* str::contains
Contains(hay, needle) ==
  \E i \in 0..(Len(hay) - Len(needle)) :
     SubSeq(hay, i + 1, i + Len(needle)) = needle

\* whether the bytes are valid UTF-8 (read_line fails on a line that is not)
ValidUtf8(t) == \A i \in 1..Len(t) : t[i] # "0xFF"

Children == 1..MaxSpawns

\* the credentials main reads once, before its loop
username == "username"
password == "password"

VARIABLES
  pc,          \* position of the main thread
  outcome,     \* how main ended: "running", a panic message or an Err
  leaving,     \* the Err (or panic) carried while the cycle's scope unwinds
  stdout,      \* output of the sync-mode child, while connect_to_geph parses it
  is_plus,     \* entitlement flag
  exit,        \* chosen exit hostname
  child,       \* the connect-mode child held by the main thread (0: none)
  n,           \* byte count of the detector's last read_line (-1: none yet)
  spawned,     \* number of connect-mode children spawned so far
  execFailed,  \* whether an exec of geph4-client has failed
  proc,        \* proc[c]: "unborn", "running", "exited" (zombie) or "reaped"
  errOpen,     \* errOpen[c]: the write end of c's stderr pipe is open
  written,     \* written[c]: the lines c has written to stderr
  nRead,       \* nRead[c]: how many of them have been read from the pipe
  events,      \* events[c]: the kill and wait calls made on c's handle
  args,        \* args[c]: the arguments c was spawned with, while main holds the exit
  relay,       \* relay[c]: state of the send_stderr thread of c
  sent,        \* sent[c]: every message enqueued on c's channel
  nRecv,       \* nRecv[c]: how many of them the receiver has taken
  rxAlive,     \* rxAlive[c]: c's Receiver has not been dropped
  detected,    \* the lines the detector has read in this connect_to_geph call
  config,      \* endpoints of the parsed configuration still to test
  name,        \* test group being downloaded
  iter,        \* iterations of that group done
  result_vec,  \* measurements of that group
  data_error,  \* result_struct.data_error
  geph_stderr  \* result_struct.geph_stderr, as the lines appended

mainVars == << pc, outcome, leaving, stdout, is_plus, exit, child, n, detected >>
childVars == << proc, errOpen, written, nRead, events, args, spawned, execFailed >>
chanVars == << relay, sent, nRecv, rxAlive >>
probeVars == << config, name, iter, result_vec, data_error, geph_stderr >>
vars == << mainVars, childVars, chanVars, probeVars >>


(***************************************************************************)
(* The sync-mode output: a serde_json::Value is modelled by its type and   *)
(* the parts the deserializers of connect_to_geph look at.                 *)
(***************************************************************************)
JObject(sub, host) ==
  [t |-> "object", subscription |-> sub, hostname |-> host, items |-> << >>]
JArray(s) ==
  [t |-> "array", subscription |-> FALSE, hostname |-> "", items |-> s]
JString ==
  [t |-> "string", subscription |-> FALSE, hostname |-> "", items |-> << >>]

UserNoSub == JObject(FALSE, "")
UserSub == JObject(TRUE, "")
PlusExits == JArray(<< JObject(FALSE, "plus.exit") >>)
FreeExits == JArray(<< JObject(FALSE, "free.a"), JObject(FALSE, "free.b") >>)
NoExits == JArray(<< >>)

\* stdout that is not a JSON array at all
BadJson == [t |-> "garbage", subscription |-> FALSE, hostname |-> "", items |-> << >>]
\* stdout once connect_to_geph no longer reads it
NoOutput == [t |-> "none", subscription |-> FALSE, hostname |-> "", items |-> << >>]

\* the outputs the sync-mode child is let to produce
SyncOutputs ==
  { BadJson,
    JArray(<< >>),
    JArray(<< UserNoSub >>),
    JArray(<< UserNoSub, PlusExits >>),
    JArray(<< UserSub, PlusExits >>),
    JArray(<< UserSub, NoExits >>),
    JArray(<< JString, PlusExits >>),
    JArray(<< UserNoSub, PlusExits, FreeExits >>),
    JArray(<< UserSub, PlusExits, FreeExits >>),
    JArray(<< UserSub, JString, FreeExits >>),
    JArray(<< UserNoSub, PlusExits, NoExits >>),
    JArray(<< UserNoSub, PlusExits, JString >>) }

\* serde_json::from_value::<SubscriptionInfo>: whether it succeeds
SubscriptionInfoOk(v) == v.t = "object"

\* subscription_info.subscription.is_some()
HasSubscription(v) == v.t = "object" /\ v.subscription

\* serde_json::from_value::<Vec<ExitDescriptor>>: whether it succeeds
ExitListOk(v) ==
  /\ v.t = "array"
  /\ \A i \in 1..Len(v.items) :
        v.items[i].t = "object" /\ v.items[i].hostname # ""

\* variant: the second element is taken whatever the entitlement
ExitIndexAlwaysSecond(plus) == 2

\* index of the exit list in the (1-based) array: deserialized[if is_plus {1} else {2}]
ExitIndex(plus) == IF plus THEN 2 ELSE 3

\* the panic that ends the parse of the sync-mode output, or "none"
ParsePanic(out) ==
  IF out.t # "array" THEN "geph gave us bad json"
  ELSE IF Len(out.items) < 1 THEN "index out of bounds"
  ELSE IF ~SubscriptionInfoOk(out.items[1]) THEN "could not deserialize user info"
  ELSE IF Len(out.items) < ExitIndex(HasSubscription(out.items[1]))
         THEN "index out of bounds"
  ELSE IF ~ExitListOk(out.items[ExitIndex(HasSubscription(out.items[1]))])
         THEN "could not deserialize bridges"
  ELSE IF Len(out.items[ExitIndex(HasSubscription(out.items[1]))].items) = 0
         THEN "empty range"
  ELSE "none"

\* exit_list, when the parse does not panic
ExitList(out) == out.items[ExitIndex(HasSubscription(out.items[1]))].items

(***************************************************************************)
(* Initial state: main is about to enter its loop.                         *)
(***************************************************************************)
NoData == [tag |-> "Data", data |-> << >>]

Init ==
  /\ pc = "start"
  /\ outcome = "running"
  /\ leaving = "none"
  /\ stdout = NoOutput
  /\ is_plus = FALSE
  /\ exit = ""
  /\ child = 0
  /\ n = -1
  /\ detected = {}
  /\ spawned = 0
  /\ execFailed = FALSE
  /\ proc = [c \in Children |-> "unborn"]
  /\ errOpen = [c \in Children |-> FALSE]
  /\ written = [c \in Children |-> << >>]
  /\ nRead = [c \in Children |-> 0]
  /\ events = [c \in Children |-> << >>]
  /\ args = [c \in Children |-> << >>]
  /\ relay = [c \in Children |-> "none"]
  /\ sent = [c \in Children |-> << >>]
  /\ nRecv = [c \in Children |-> 0]
  /\ rxAlive = [c \in Children |-> FALSE]
  /\ config = << >>
  /\ name = 0
  /\ iter = 0
  /\ result_vec = 0
  /\ data_error = NoData
  /\ geph_stderr = << >>

(***************************************************************************)
(* A panic of the main thread outside the probe cycle's scope: the process *)
(* ends at once, nothing is killed or waited on.                           *)
(***************************************************************************)
Panic(msg) ==
  /\ pc' = "terminated"
  /\ outcome' = msg

(***************************************************************************)
(* connect_to_geph, sync mode                                              *)
(***************************************************************************)
\* Command::new("geph4-client").arg("sync")...spawn().expect(..)
SyncSpawn ==
  /\ pc = "start"
  /\ \/ /\ pc' = "sync_wait"
        /\ UNCHANGED << outcome, execFailed >>
     \/ /\ Panic("spawning geph4-client failed")
        /\ execFailed' = TRUE
  /\ UNCHANGED << leaving, stdout, is_plus, exit, child, n, detected >>
  /\ UNCHANGED << proc, errOpen, written, nRead, events, spawned >>
  /\ UNCHANGED << chanVars, probeVars >>
  /\ UNCHANGED args

\* output.wait_with_output().expect("failed to wait")
SyncWait ==
  /\ pc = "sync_wait"
  /\ \/ \E out \in SyncOutputs :
           /\ stdout' = out
           /\ pc' = "parse"
           /\ UNCHANGED outcome
     \/ /\ Panic("failed to wait")
        /\ UNCHANGED stdout
  /\ UNCHANGED << leaving, is_plus, exit, child, n, detected >>
  /\ UNCHANGED << childVars, chanVars, probeVars >>

\* from the parse of stdout to the choice of the exit
ParseSync ==
  /\ pc = "parse"
  /\ IF ParsePanic(stdout) # "none"
       THEN /\ Panic(ParsePanic(stdout))
            /\ UNCHANGED << stdout, is_plus, exit >>
       ELSE /\ is_plus' = HasSubscription(stdout.items[1])
            /\ \E i \in 1..Len(ExitList(stdout)) :
                  exit' = ExitList(stdout)[i].hostname
            /\ stdout' = NoOutput
            /\ pc' = "connect_spawn"
            /\ UNCHANGED outcome
  /\ UNCHANGED << leaving, child, n, detected >>
  /\ UNCHANGED << childVars, chanVars, probeVars >>

(***************************************************************************)
(* The stderr pipe of a child and the channel made for it.                 *)
(***************************************************************************)
\* a line is waiting in c's pipe
Avail(c) == nRead[c] < Len(written[c])

\* the pipe is drained and its write end closed: read_line returns Ok(0)
AtEof(c) == ~Avail(c) /\ ~errOpen[c]

\* the line the next read_line on c's pipe takes
NextLine(c) == written[c][nRead[c] + 1]

\* sender.send(line.clone()) on c's channel
Send(c, l) == sent' = [sent EXCEPT ![c] = Append(@, l)]

\* the reader of c's pipe is dropped after the child is gone: the pipe and
\* what it held are freed
ClosePipe(c) ==
  /\ written' = [written EXCEPT ![c] = << >>]
  /\ nRead' = [nRead EXCEPT ![c] = 0]

\* the child is reaped and its channel dropped while the relay thread still
\* holds the reader: the thread ends on its next read (a failed send, a read
\* error or Ok(0)), so only the next line of the pipe is ever read
AbandonPipe(c) ==
  /\ written' = [written EXCEPT ![c] =
                   IF Avail(c) THEN << NextLine(c) >> ELSE << >>]
  /\ nRead' = [nRead EXCEPT ![c] = 0]

\* the Receiver of c's channel is dropped: the messages still queued are
\* discarded with it
DropChannel(c) ==
  /\ rxAlive' = [rxAlive EXCEPT ![c] = FALSE]
  /\ sent' = [sent EXCEPT ![c] = << >>]
  /\ nRecv' = [nRecv EXCEPT ![c] = 0]

(***************************************************************************)
(* connect_to_geph, connect mode                                           *)
(***************************************************************************)
\* variant: a failed exec is retried instead of being fatal
ConnectSpawnRetries ==
  /\ pc = "connect_spawn"
  /\ \/ /\ spawned < MaxSpawns
        /\ spawned' = spawned + 1
        /\ child' = spawned + 1
        /\ proc' = [proc EXCEPT ![spawned + 1] = "running"]
        /\ errOpen' = [errOpen EXCEPT ![spawned + 1] = TRUE]
        /\ rxAlive' = [rxAlive EXCEPT ![spawned + 1] = TRUE]
        /\ args' = [args EXCEPT ![spawned + 1] = << username, password, exit >>]
        /\ n' = -1
        /\ pc' = "detect"
        /\ UNCHANGED << outcome, execFailed >>
     \/ /\ execFailed' = TRUE
        /\ UNCHANGED << pc, outcome >>
        /\ UNCHANGED << spawned, child, proc, errOpen, rxAlive, n, args >>
  /\ UNCHANGED << leaving, stdout, is_plus, exit, detected >>
  /\ UNCHANGED << written, nRead, events, relay, sent, nRecv >>
  /\ UNCHANGED probeVars

\* variant: the exit is picked anew at every spawn
ConnectSpawnPicksExit ==
  /\ pc = "connect_spawn"
  /\ \/ /\ spawned < MaxSpawns
        /\ spawned' = spawned + 1
        /\ child' = spawned + 1
        /\ proc' = [proc EXCEPT ![spawned + 1] = "running"]
        /\ errOpen' = [errOpen EXCEPT ![spawned + 1] = TRUE]
        /\ rxAlive' = [rxAlive EXCEPT ![spawned + 1] = TRUE]
        /\ \E h \in {"free.a", "free.b"} :
              args' = [args EXCEPT ![spawned + 1] = << username, password, h >>]
        /\ n' = -1
        /\ pc' = "detect"
        /\ UNCHANGED << outcome, execFailed >>
     \/ /\ Panic("could not connect to geph")
        /\ execFailed' = TRUE
        /\ UNCHANGED << spawned, child, proc, errOpen, rxAlive, n, args >>
  /\ UNCHANGED << leaving, stdout, is_plus, exit, detected >>
  /\ UNCHANGED << written, nRead, events, relay, sent, nRecv >>
  /\ UNCHANGED probeVars

\* Command::new("geph4-client").arg("connect")...spawn().expect(..), then
\* child.stderr.take() and channel()
ConnectSpawn ==
  /\ pc = "connect_spawn"
  /\ \/ /\ spawned < MaxSpawns
        /\ spawned' = spawned + 1
        /\ child' = spawned + 1
        /\ proc' = [proc EXCEPT ![spawned + 1] = "running"]
        /\ errOpen' = [errOpen EXCEPT ![spawned + 1] = TRUE]
        /\ rxAlive' = [rxAlive EXCEPT ![spawned + 1] = TRUE]
        /\ args' = [args EXCEPT ![spawned + 1] = << username, password, exit >>]
        /\ n' = -1
        /\ pc' = "detect"
        /\ UNCHANGED << outcome, execFailed >>
     \/ /\ Panic("could not connect to geph")
        /\ execFailed' = TRUE
        /\ UNCHANGED << spawned, child, proc, errOpen, rxAlive, n, args >>
  /\ UNCHANGED << leaving, stdout, is_plus, exit, detected >>
  /\ UNCHANGED << written, nRead, events, relay, sent, nRecv >>
  /\ UNCHANGED probeVars

\* variant: the line is cleared before it is sent
DetectLineSendsCleared ==
  /\ pc = "detect"
  /\ Avail(child)
  /\ ValidUtf8(Text(NextLine(child)))
  /\ ~Contains(Text(NextLine(child)), Marker)
  /\ nRead' = [nRead EXCEPT ![child] = @ + 1]
  /\ n' = Len(Text(NextLine(child)))
  /\ Send(child, EmptyString)
  /\ detected' = detected \cup {NextLine(child)}
  /\ UNCHANGED << pc, outcome, leaving, stdout, is_plus, exit, child >>
  /\ UNCHANGED << proc, errOpen, written, events, spawned, execFailed >>
  /\ UNCHANGED << relay, nRecv, rxAlive, probeVars >>
  /\ UNCHANGED args

\* one turn of the inner loop on a line that does not hold the marker
DetectLine ==
  /\ pc = "detect"
  /\ Avail(child)
  /\ ValidUtf8(Text(NextLine(child)))
  /\ ~Contains(Text(NextLine(child)), Marker)
  /\ nRead' = [nRead EXCEPT ![child] = @ + 1]
  /\ n' = Len(Text(NextLine(child)))
  /\ Send(child, NextLine(child))
  /\ detected' = detected \cup {NextLine(child)}
  /\ UNCHANGED << pc, outcome, leaving, stdout, is_plus, exit, child >>
  /\ UNCHANGED << proc, errOpen, written, events, spawned, execFailed >>
  /\ UNCHANGED << relay, nRecv, rxAlive, probeVars >>
  /\ UNCHANGED args

\* variant: readiness is declared on any line that was read
DetectReadyAnyLine ==
  /\ pc = "detect"
  /\ Avail(child)
  /\ ValidUtf8(Text(NextLine(child)))
  /\ nRead' = [nRead EXCEPT ![child] = @ + 1]
  /\ n' = -1
  /\ Send(child, NextLine(child))
  /\ relay' = [relay EXCEPT ![child] = "running"]
  /\ data_error' = NoData
  /\ geph_stderr' = << >>
  /\ pc' = "build_client"
  /\ detected' = detected \cup {NextLine(child)}
  /\ UNCHANGED << outcome, leaving, stdout, is_plus, exit, child >>
  /\ UNCHANGED << proc, errOpen, written, events, spawned, execFailed >>
  /\ UNCHANGED << nRecv, rxAlive, config, name, iter, result_vec >>
  /\ UNCHANGED args

\* variant: the detector hands the reader to the relay thread and keeps
\* reading the stream itself
DetectReadyKeepsReading ==
  /\ pc = "detect"
  /\ Avail(child)
  /\ ValidUtf8(Text(NextLine(child)))
  /\ Contains(Text(NextLine(child)), Marker)
  /\ nRead' = [nRead EXCEPT ![child] = @ + 1]
  /\ n' = -1
  /\ Send(child, NextLine(child))
  /\ relay' = [relay EXCEPT ![child] = "running"]
  /\ data_error' = NoData
  /\ geph_stderr' = << >>
  /\ pc' = "detect"
  /\ detected' = detected \cup {NextLine(child)}
  /\ UNCHANGED << outcome, leaving, stdout, is_plus, exit, child >>
  /\ UNCHANGED << proc, errOpen, written, events, spawned, execFailed >>
  /\ UNCHANGED << nRecv, rxAlive, config, name, iter, result_vec >>
  /\ UNCHANGED args

\* the turn that reads a line holding the marker: the relay thread is
\* spawned and connect_to_geph returns; main installs its guard and builds
\* result_struct
DetectReady ==
  /\ pc = "detect"
  /\ Avail(child)
  /\ ValidUtf8(Text(NextLine(child)))
  /\ Contains(Text(NextLine(child)), Marker)
  /\ nRead' = [nRead EXCEPT ![child] = @ + 1]
  /\ n' = -1
  /\ Send(child, NextLine(child))
  /\ relay' = [relay EXCEPT ![child] = "running"]
  /\ data_error' = NoData
  /\ geph_stderr' = << >>
  /\ pc' = "build_client"
  /\ detected' = detected \cup {NextLine(child)}
  /\ UNCHANGED << outcome, leaving, stdout, is_plus, exit, child >>
  /\ UNCHANGED << proc, errOpen, written, events, spawned, execFailed >>
  /\ UNCHANGED << nRecv, rxAlive, config, name, iter, result_vec >>
  /\ UNCHANGED args

\* read_line fails: .expect("could not read from child stderr") panics
DetectReadError ==
  /\ pc = "detect"
  /\ Avail(child)
  /\ ~ValidUtf8(Text(NextLine(child)))
  /\ nRead' = [nRead EXCEPT ![child] = @ + 1]
  /\ Panic("could not read from child stderr")
  /\ UNCHANGED << leaving, stdout, is_plus, exit, child, n, detected >>
  /\ UNCHANGED << proc, errOpen, written, events, spawned, execFailed >>
  /\ UNCHANGED << chanVars, probeVars >>
  /\ UNCHANGED args

\* variant: the relay thread is spawned for an attempt whose stream closed
DetectEofSpawnsRelay ==
  /\ pc = "detect"
  /\ AtEof(child)
  /\ n' = 0
  /\ Send(child, EmptyString)
  /\ relay' = [relay EXCEPT ![child] = "running"]
  /\ pc' = "retry_wait"
  /\ UNCHANGED << outcome, leaving, stdout, is_plus, exit, child, detected >>
  /\ UNCHANGED << childVars, nRecv, rxAlive, probeVars >>

\* read_line returns 0: the cleared line is sent and the retry begins
DetectEof ==
  /\ pc = "detect"
  /\ AtEof(child)
  /\ n' = 0
  /\ Send(child, EmptyString)
  /\ pc' = "retry_wait"
  /\ UNCHANGED << outcome, leaving, stdout, is_plus, exit, child, detected >>
  /\ UNCHANGED << childVars, relay, nRecv, rxAlive, probeVars >>

\* variant: the retry does not wait on the child
RetryNoWait ==
  /\ pc = "retry_wait"
  /\ DropChannel(child)
  /\ ClosePipe(child)
  /\ child' = 0
  /\ n' = -1
  /\ pc' = "connect_spawn"
  /\ UNCHANGED << outcome, leaving, stdout, is_plus, exit, detected >>
  /\ UNCHANGED << proc, events, errOpen, spawned, execFailed >>
  /\ UNCHANGED << relay, probeVars >>
  /\ args' = [args EXCEPT ![child] = << >>]

\* child.wait().unwrap() returns once the child has exited; then the sleep,
\* the break, and the drop of this attempt's child, reader and channel
RetryWait ==
  /\ pc = "retry_wait"
  /\ proc[child] = "exited"
  /\ proc' = [proc EXCEPT ![child] = "reaped"]
  /\ events' = [events EXCEPT ![child] = Append(@, "wait")]
  /\ DropChannel(child)
  /\ ClosePipe(child)
  /\ child' = 0
  /\ n' = -1
  /\ pc' = "connect_spawn"
  /\ UNCHANGED << outcome, leaving, stdout, is_plus, exit, detected >>
  /\ UNCHANGED << errOpen, spawned, execFailed >>
  /\ UNCHANGED << relay, probeVars >>
  /\ args' = [args EXCEPT ![child] = << >>]

(***************************************************************************)
(* send_stderr: the relay thread of child c.  It lives while the process   *)
(* does.                                                                   *)
(***************************************************************************)
\* variant: the line that was read is not sent
RelayLineDrops(c) ==
  /\ pc # "terminated"
  /\ relay[c] = "running"
  /\ Avail(c)
  /\ ValidUtf8(Text(NextLine(c)))
  /\ nRead' = [nRead EXCEPT ![c] = @ + 1]
  /\ UNCHANGED << mainVars, probeVars, chanVars >>
  /\ UNCHANGED << proc, errOpen, written, events, spawned, execFailed >>
  /\ UNCHANGED args

\* Ok(_): the line is sent; a send to a dropped receiver fails and unwrap panics
RelayLine(c) ==
  /\ pc # "terminated"
  /\ relay[c] = "running"
  /\ Avail(c)
  /\ ValidUtf8(Text(NextLine(c)))
  /\ IF rxAlive[c]
       THEN /\ Send(c, NextLine(c))
            /\ nRead' = [nRead EXCEPT ![c] = @ + 1]
            /\ UNCHANGED << relay, written >>
       ELSE /\ relay' = [relay EXCEPT ![c] = "send panic"]
            /\ ClosePipe(c)
            /\ UNCHANGED sent
  /\ UNCHANGED << mainVars, probeVars, nRecv, rxAlive >>
  /\ UNCHANGED << proc, errOpen, events, spawned, execFailed >>
  /\ UNCHANGED args

\* variant: the cleared line is sent at Ok(0), as the detector does
RelayEofSends(c) ==
  /\ pc # "terminated"
  /\ relay[c] = "running"
  /\ AtEof(c)
  /\ relay' = [relay EXCEPT ![c] = "returned"]
  /\ IF rxAlive[c]
       THEN Send(c, EmptyString) /\ UNCHANGED << written, nRead >>
       ELSE ClosePipe(c) /\ UNCHANGED sent
  /\ UNCHANGED << mainVars, probeVars, nRecv, rxAlive >>
  /\ UNCHANGED << proc, errOpen, events, spawned, execFailed >>
  /\ UNCHANGED args

\* variant: a read of zero bytes is taken for a failure
RelayEofPanics(c) ==
  /\ pc # "terminated"
  /\ relay[c] = "running"
  /\ AtEof(c)
  /\ relay' = [relay EXCEPT ![c] = "read panic"]
  /\ IF rxAlive[c] THEN UNCHANGED << written, nRead >> ELSE ClosePipe(c)
  /\ UNCHANGED << mainVars, probeVars, sent, nRecv, rxAlive >>
  /\ UNCHANGED << proc, errOpen, events, spawned, execFailed >>
  /\ UNCHANGED args

\* Ok(0): return
RelayEof(c) ==
  /\ pc # "terminated"
  /\ relay[c] = "running"
  /\ AtEof(c)
  /\ relay' = [relay EXCEPT ![c] = "returned"]
  /\ IF rxAlive[c] THEN UNCHANGED << written, nRead >> ELSE ClosePipe(c)
  /\ UNCHANGED << mainVars, probeVars, sent, nRecv, rxAlive >>
  /\ UNCHANGED << proc, errOpen, events, spawned, execFailed >>
  /\ UNCHANGED args

\* variant: a failed read in the relay thread ends the whole process
RelayReadErrorAborts(c) ==
  /\ pc # "terminated"
  /\ relay[c] = "running"
  /\ Avail(c)
  /\ ~ValidUtf8(Text(NextLine(c)))
  /\ relay' = [relay EXCEPT ![c] = "read panic"]
  /\ IF rxAlive[c]
       THEN nRead' = [nRead EXCEPT ![c] = @ + 1] /\ UNCHANGED written
       ELSE ClosePipe(c)
  /\ Panic("relay read error")
  /\ UNCHANGED << leaving, stdout, is_plus, exit, child, n, detected >>
  /\ UNCHANGED << probeVars, sent, nRecv, rxAlive >>
  /\ UNCHANGED << proc, errOpen, events, spawned, execFailed >>
  /\ UNCHANGED args

\* Err(e): panic
RelayReadError(c) ==
  /\ pc # "terminated"
  /\ relay[c] = "running"
  /\ Avail(c)
  /\ ~ValidUtf8(Text(NextLine(c)))
  /\ relay' = [relay EXCEPT ![c] = "read panic"]
  /\ IF rxAlive[c]
       THEN nRead' = [nRead EXCEPT ![c] = @ + 1] /\ UNCHANGED written
       ELSE ClosePipe(c)
  /\ UNCHANGED << mainVars, probeVars, sent, nRecv, rxAlive >>
  /\ UNCHANGED << proc, errOpen, events, spawned, execFailed >>
  /\ UNCHANGED args

(***************************************************************************)
(* The geph4-client connect-mode process c.                                *)
(***************************************************************************)
ChildWrite(c, l) ==
  /\ pc # "terminated"
  /\ proc[c] = "running"
  /\ errOpen[c]
  /\ Len(written[c]) < MaxLines
  /\ written' = [written EXCEPT ![c] = Append(@, l)]
  /\ UNCHANGED << mainVars, probeVars, chanVars >>
  /\ UNCHANGED << proc, errOpen, nRead, events, spawned, execFailed >>
  /\ UNCHANGED args

\* the process closes its stderr and keeps running
ChildCloseStderr(c) ==
  /\ pc # "terminated"
  /\ proc[c] = "running"
  /\ errOpen[c]
  /\ errOpen' = [errOpen EXCEPT ![c] = FALSE]
  /\ UNCHANGED << mainVars, probeVars, chanVars >>
  /\ UNCHANGED << proc, written, nRead, events, spawned, execFailed >>
  /\ UNCHANGED args

\* the process exits by itself
ChildExit(c) ==
  /\ pc # "terminated"
  /\ proc[c] = "running"
  /\ proc' = [proc EXCEPT ![c] = "exited"]
  /\ errOpen' = [errOpen EXCEPT ![c] = FALSE]
  /\ UNCHANGED << mainVars, probeVars, chanVars >>
  /\ UNCHANGED << written, nRead, events, spawned, execFailed >>
  /\ UNCHANGED args

(***************************************************************************)
(* main: the probe cycle, inside the scope guarded by scopeguard::defer!   *)
(***************************************************************************)
\* variant: no deferred block, the scope is left without kill and wait
LeaveUnguarded(err) ==
  /\ leaving' = err
  /\ pc' = "drop_receiver"
  /\ is_plus' = FALSE
  /\ exit' = ""
  /\ config' = << >>
  /\ name' = 0
  /\ iter' = 0
  /\ result_vec' = 0
  /\ data_error' = NoData
  /\ geph_stderr' = << >>
  /\ detected' = {}
  /\ args' = [args EXCEPT ![child] = << >>]
  /\ UNCHANGED << outcome, stdout, child, n, chanVars >>
  /\ UNCHANGED << proc, errOpen, written, nRead, events, spawned, execFailed >>

\* the scope is left: by the end of the loop body ("none"), by an Err
\* returned with `?` or by a panic.  The locals declared after the guard
\* (result_struct, client, rt, config) are dropped, the exit among them, then
\* the guard runs
Leave(err) ==
  /\ leaving' = err
  /\ pc' = "guard_kill"
  /\ is_plus' = FALSE
  /\ exit' = ""
  /\ config' = << >>
  /\ name' = 0
  /\ iter' = 0
  /\ result_vec' = 0
  /\ data_error' = NoData
  /\ geph_stderr' = << >>
  /\ detected' = {}
  /\ args' = [args EXCEPT ![child] = << >>]
  /\ UNCHANGED << outcome, stdout, child, n, chanVars >>
  /\ UNCHANGED << proc, errOpen, written, nRead, events, spawned, execFailed >>

\* a step of the probe cycle that stays in the scope and moves main to p
Goto(p) ==
  /\ pc' = p
  /\ UNCHANGED << outcome, leaving, stdout, is_plus, exit, child, n, detected >>
  /\ UNCHANGED childVars

\* the configurations the download may deliver: endpoint -> iterations
Configs == { << >>, << 0 >>, << 2 >>, << 1, 1 >> }

\* reqwest::Proxy::all(..)?, Client::builder()..build()?, Runtime::new().unwrap()
BuildClient ==
  /\ pc = "build_client"
  /\ \/ Goto("get_config") /\ UNCHANGED << chanVars, probeVars >>
     \/ \E err \in {"proxy error", "client build error", "runtime panic"} :
           Leave(err)

\* rt.block_on(async_download(..))? and toml::from_slice(..).context(..)?
GetConfig ==
  /\ pc = "get_config"
  /\ \/ \E cfg \in Configs :
           /\ config' = cfg
           /\ Goto("tests")
           /\ UNCHANGED << name, iter, result_vec, data_error, geph_stderr >>
           /\ UNCHANGED chanVars
     \/ \E err \in {"config download error", "cannot parse TOML file"} :
           Leave(err)

\* the outer for takes the next endpoint, in the HashMap's order
NextEndpoint ==
  /\ pc = "tests"
  /\ \E nm \in DOMAIN config :
        /\ name' = nm
        /\ iter' = 0
        /\ result_vec' = 0
        /\ Goto("download")
  /\ UNCHANGED << chanVars, config, data_error, geph_stderr >>

\* one timed download that succeeds: a measurement is pushed, unless the
\* timestamp fails
DownloadOk ==
  /\ pc = "download"
  /\ iter < config[name]
  /\ \/ /\ result_vec' = result_vec + 1
        /\ iter' = iter + 1
        /\ Goto("download")
        /\ UNCHANGED << chanVars, config, name, data_error, geph_stderr >>
     \/ Leave("SystemTimeError")

\* variant: after a failed download the group's remaining iterations still run
DownloadErrContinues ==
  /\ pc = "download"
  /\ iter < config[name]
  /\ \/ /\ data_error' = [tag |-> "Error", data |-> << >>]
        /\ iter' = iter + 1
        /\ Goto("download")
        /\ UNCHANGED << chanVars, config, name, result_vec, geph_stderr >>
     \/ Leave("SystemTimeError")

\* variant: the Error outcome keeps the measurements collected so far
DownloadErrKeepsData ==
  /\ pc = "download"
  /\ iter < config[name]
  /\ \/ /\ data_error' = [tag |-> "Error", data |-> data_error.data]
        /\ config' = << >>
        /\ name' = 0
        /\ iter' = 0
        /\ result_vec' = 0
        /\ Goto("drain")
        /\ UNCHANGED << chanVars, geph_stderr >>
     \/ Leave("SystemTimeError")

\* one timed download that fails: data_error becomes Error, the inner loop
\* breaks and the match after it breaks the outer loop, whose iterator and
\* locals are dropped
DownloadErr ==
  /\ pc = "download"
  /\ iter < config[name]
  /\ \/ /\ data_error' = [tag |-> "Error", data |-> << >>]
        /\ config' = << >>
        /\ name' = 0
        /\ iter' = 0
        /\ result_vec' = 0
        /\ Goto("drain")
        /\ UNCHANGED << chanVars, geph_stderr >>
     \/ Leave("SystemTimeError")

\* the inner loop has run td.iterations times: datamap.insert(name, result_vec)
EndGroup ==
  /\ pc = "download"
  /\ iter = config[name]
  /\ data_error' =
       [data_error EXCEPT !.data = (name :> result_vec) @@ data_error.data]
  /\ config' = [k \in DOMAIN config \ {name} |-> config[k]]
  /\ name' = 0
  /\ iter' = 0
  /\ result_vec' = 0
  /\ Goto("tests")
  /\ UNCHANGED << chanVars, geph_stderr >>

\* the outer for is exhausted
TestsDone ==
  /\ pc = "tests"
  /\ DOMAIN config = {}
  /\ Goto("drain")
  /\ UNCHANGED << chanVars, probeVars >>

\* receiver.try_recv() is Ok(line): the line is appended to geph_stderr
DrainRecv ==
  /\ pc = "drain"
  /\ nRecv[child] < Len(sent[child])
  /\ geph_stderr' = Append(geph_stderr, sent[child][nRecv[child] + 1])
  /\ nRecv' = [nRecv EXCEPT ![child] = @ + 1]
  /\ Goto("drain")
  /\ UNCHANGED << relay, sent, rxAlive >>
  /\ UNCHANGED << config, name, iter, result_vec, data_error >>

\* variant: a blocking recv(), which fails only once the sender is dropped
DrainEndBlocking ==
  /\ pc = "drain"
  /\ nRecv[child] = Len(sent[child])
  /\ relay[child] # "running"
  /\ Goto("serialize")
  /\ UNCHANGED << chanVars, probeVars >>

\* receiver.try_recv() is Err (empty or disconnected): the while let ends
DrainEnd ==
  /\ pc = "drain"
  /\ nRecv[child] = Len(sent[child])
  /\ Goto("serialize")
  /\ UNCHANGED << chanVars, probeVars >>

\* serde_json::to_string(&result_struct).context(..)?
Serialize ==
  /\ pc = "serialize"
  /\ \/ Goto("upload") /\ UNCHANGED << chanVars, probeVars >>
     \/ Leave("could not serialize result_struct")

\* ureq::post(..).send_string(..)?, then the sleep and the end of the loop body
Upload ==
  /\ pc = "upload"
  /\ \/ Leave("none")
     \/ Leave("upload error")

(***************************************************************************)
(* The scope's end: the deferred block runs, then the locals declared      *)
(* before it are dropped, the receiver among them.                         *)
(***************************************************************************)
\* child.kill().unwrap()
GuardKill ==
  /\ pc = "guard_kill"
  /\ events' = [events EXCEPT ![child] = Append(@, "kill")]
  /\ proc' = [proc EXCEPT ![child] = IF @ = "running" THEN "exited" ELSE @]
  /\ errOpen' = [errOpen EXCEPT ![child] = FALSE]
  /\ pc' = "guard_wait"
  /\ UNCHANGED << outcome, leaving, stdout, is_plus, exit, child, n, detected >>
  /\ UNCHANGED << written, nRead, spawned, execFailed >>
  /\ UNCHANGED << chanVars, probeVars >>
  /\ UNCHANGED args

\* child.wait().unwrap()
GuardWait ==
  /\ pc = "guard_wait"
  /\ proc[child] = "exited"
  /\ proc' = [proc EXCEPT ![child] = "reaped"]
  /\ events' = [events EXCEPT ![child] = Append(@, "wait")]
  /\ pc' = "drop_receiver"
  /\ UNCHANGED << outcome, leaving, stdout, is_plus, exit, child, n, detected >>
  /\ UNCHANGED << errOpen, written, nRead, spawned, execFailed >>
  /\ UNCHANGED << chanVars, probeVars >>
  /\ UNCHANGED args

\* receiver and child go out of scope; the loop starts over, or main ends
DropReceiver ==
  /\ pc = "drop_receiver"
  /\ DropChannel(child)
  /\ IF relay[child] = "running"
       THEN AbandonPipe(child)
       ELSE ClosePipe(child)
  /\ child' = 0
  /\ IF leaving = "none"
       THEN pc' = "start" /\ UNCHANGED outcome
       ELSE pc' = "terminated" /\ outcome' = leaving
  /\ leaving' = "none"
  /\ UNCHANGED << stdout, is_plus, exit, n, detected >>
  /\ UNCHANGED << proc, errOpen, events, spawned, execFailed, relay >>
  /\ UNCHANGED probeVars
  /\ args' = [args EXCEPT ![child] = << >>]

(***************************************************************************)
(* Specifications                                                          *)
(***************************************************************************)
Supervisor ==
  \/ SyncSpawn
  \/ SyncWait
  \/ ParseSync
  \/ ConnectSpawn
  \/ DetectLine
  \/ DetectReady
  \/ DetectReadError
  \/ DetectEof
  \/ RetryWait

Probe ==
  \/ BuildClient
  \/ GetConfig
  \/ NextEndpoint
  \/ DownloadOk
  \/ DownloadErr
  \/ EndGroup
  \/ TestsDone
  \/ DrainRecv
  \/ DrainEnd
  \/ Serialize
  \/ Upload

Teardown ==
  \/ GuardKill
  \/ GuardWait
  \/ DropReceiver

Relay(c) ==
  \/ RelayLine(c)
  \/ RelayEof(c)
  \/ RelayReadError(c)

Process(c) ==
  \/ \E l \in Lines : ChildWrite(c, l)
  \/ ChildCloseStderr(c)
  \/ ChildExit(c)

Next ==
  \/ Supervisor
  \/ Probe
  \/ Teardown
  \/ \E c \in Children : Relay(c)
  \/ \E c \in Children : Process(c)

Spec == Init /\ [][Next]_vars

\* the steps of the main thread that do not wait on the network: the timed
\* downloads and the upload have no timeout and may never return
MainFair ==
  \/ Supervisor
  \/ Teardown
  \/ BuildClient
  \/ GetConfig
  \/ NextEndpoint
  \/ EndGroup
  \/ TestsDone
  \/ DrainRecv
  \/ DrainEnd
  \/ Serialize

\* the main thread and every relay thread are scheduled fairly; the child
\* processes and the network are not bound to act
FairSpec ==
  /\ Spec
  /\ WF_vars(MainFair)
  /\ \A c \in Children : WF_vars(Relay(c))

(***************************************************************************)
(* Properties                                                              *)
(***************************************************************************)
IsPrefix(s, t) == Len(s) <= Len(t) /\ SubSeq(t, 1, Len(s)) = s

\* connect_to_geph has returned c's handle: its relay thread was spawned
Returned(c) == relay[c] # "none"

\* c was spawned and has not been waited on
Unreaped(c) == proc[c] \in {"running", "exited"}

\* C1: a child whose handle was returned to the probe loop is killed and then
\* waited on exactly once on every way out of the cycle's scope, and main is
\* outside that scope (in the next connect cycle, or ended) only after that
C1_GuardedCleanup ==
  \A c \in Children :
     Returned(c) =>
        /\ IsPrefix(events[c], << "kill", "wait" >>)
        /\ child # c => events[c] = << "kill", "wait" >> /\ proc[c] = "reaped"

\* main has ended by an upload error, its child killed and reaped
C1_Witness ==
  /\ pc = "terminated"
  /\ outcome = "upload error"
  /\ events[1] = << "kill", "wait" >>

\* C2: when the supervisor stops, every spawned child has been reaped, and the
\* child whose stderr read failed in the readiness loop has been killed and
\* waited on once
C2_DetectorErrorCleanup ==
  pc = "terminated" =>
     \A c \in 1..spawned :
        /\ proc[c] = "reaped"
        /\ c = child => events[c] = << "kill", "wait" >>

\* C3: connect_to_geph returns (readiness is declared) in the very turn
\* of the detector that reads the first line holding the marker: on no
\* earlier line of that child, on no line without the marker, and once
C3_ReadinessOnFirstMarker ==
  [][ /\ ( /\ pc = "detect"
           /\ nRead'[child] # nRead[child]
           /\ ValidUtf8(Text(NextLine(child))) )
         => ( pc' = "build_client" <=> Contains(Text(NextLine(child)), Marker) )
      /\ ( pc # "build_client" /\ pc' = "build_client" )
         => /\ pc = "detect"
            /\ Avail(child)
            /\ Contains(Text(NextLine(child)), Marker)
            /\ \A j \in 1..nRead[child] :
                  ~Contains(Text(written[child][j]), Marker)
            /\ relay[child] = "none"
            /\ relay'[child] = "running"
            /\ child' = child
    ]_vars

\* readiness was declared on the second line, the first without the marker
C3_Witness ==
  /\ pc = "build_client"
  /\ sent[child] = << 1, 2 >>
  /\ relay[child] = "running"

\* C4: once a child's stderr has closed before any marker line, the
\* supervisor reaps the child and reaches the next spawn
C4_RespawnAfterClosure == (pc = "retry_wait") ~> (pc = "connect_spawn")

\* C5: at most one connect-mode child is spawned and not yet reaped
C5_OneLiveChild == Cardinality({ c \in Children : Unreaped(c) }) <= 1

\* a retry has spawned the second child after the first was waited on
C5_Witness ==
  /\ events[1] = << "wait" >>
  /\ proc[1] = "reaped"
  /\ proc[2] = "running"

\* C6: every line the detector read in this call, failed attempts included,
\* is on the channel that connect_to_geph returns
C6_NoLineLost ==
  pc = "build_client" =>
     \A l \in detected : \E i \in 1..Len(sent[child]) : sent[child][i] = l

\* C7: what is enqueued on a returned child's channel, and what the probe
\* loop has received from it, is a prefix of what that child wrote
C7_RelayOrder ==
  \A c \in Children :
     (Returned(c) /\ rxAlive[c]) =>
        /\ IsPrefix(sent[c], written[c])
        /\ (child = c /\ pc \in {"drain", "serialize", "upload"})
              => geph_stderr = SubSeq(sent[c], 1, nRecv[c])

\* the probe loop has received the marker line and a line written after it
C7_Witness ==
  /\ pc = "serialize"
  /\ geph_stderr = << 2, 1 >>

\* connect_to_geph returns in the turn that reads the marker line
ReturnsAtMarker ==
  [][ (pc = "detect" /\ pc' = "build_client")
         => /\ nRead'[child] = nRead[child] + 1
            /\ Contains(Text(NextLine(child)), Marker)
    ]_vars

\* C8 as stated: the return is immediate, and while the stream is open every
\* line the child has written is eventually enqueued
C8_EveryLineRelayed ==
  /\ ReturnsAtMarker
  /\ \A c \in Children : \A k \in 1..MaxLines :
        (relay[c] = "running" /\ errOpen[c] /\ Len(written[c]) >= k)
           ~> (Len(sent[c]) >= k \/ ~errOpen[c])

\* C8 amended: ... or the relay thread has ended by a read error
C8_EveryLineRelayedUnlessReadError ==
  /\ ReturnsAtMarker
  /\ \A c \in Children : \A k \in 1..MaxLines :
        (relay[c] = "running" /\ errOpen[c] /\ Len(written[c]) >= k)
           ~> (Len(sent[c]) >= k \/ ~errOpen[c] \/ relay[c] = "read panic")

\* main has not moved since the return on the marker line, and the relay
\* thread has enqueued the line written after it
C8_Witness ==
  /\ pc = "build_client"
  /\ written[child] = << 2, 1 >>
  /\ sent[child] = << 2, 1 >>
  /\ errOpen[child]

\* the parse of a two-element sync-mode output
ParsesTwoElements ==
  /\ pc = "parse"
  /\ pc' # "parse"
  /\ stdout.t = "array"
  /\ Len(stdout.items) = 2

\* once main has ended, nothing is spawned
NoSpawnAfterEnd ==
  pc = "terminated" => (pc' = "terminated" /\ spawned' = spawned)

C10_ExecFailureFatal ==
  [][ /\ execFailed' => pc' = "terminated"
      /\ NoSpawnAfterEnd
      /\ (pc' = "connect_spawn" /\ pc # "connect_spawn")
            => \/ pc = "parse"
               \/ pc = "retry_wait" /\ n = 0 /\ AtEof(child)
    ]_vars

\* the exec of the respawn after a premature closure failed and ended main
C10_Witness ==
  /\ pc = "terminated"
  /\ outcome = "could not connect to geph"
  /\ events[1] = << "wait" >>
  /\ execFailed

\* the cycle's scope is left with the upload's result, which the teardown
\* carries; after a successful upload main starts the next cycle
UploadEndsCycle ==
  /\ (pc = "upload" /\ pc' # pc)
        => (pc' = "guard_kill" /\ leaving' \in {"none", "upload error"})
  /\ (pc \in {"guard_kill", "guard_wait"}) => leaving' = leaving
  /\ (pc = "drop_receiver" /\ pc' # pc)
        => pc' = (IF leaving = "none" THEN "start" ELSE "terminated")

\* the download that fails is the last of its cycle: the Error is recorded
\* and main goes on to the drain
FailureEndsTests ==
  (pc = "download" /\ data_error'.tag = "Error")
     => /\ pc' = "drain"
        /\ iter' = 0
        /\ data_error.tag = "Data"

\* C11 as stated: a failed download is recorded as Error, the rest of its
\* group is not run, main goes from there to the upload with the record
\* unchanged, and a successful upload is followed by the next cycle
C11_FailureReachesUpload ==
  [][ /\ FailureEndsTests
      /\ (data_error.tag = "Error" /\ pc \in {"drain", "serialize"})
            => /\ pc' \in {"drain", "serialize", "upload"}
               /\ data_error' = data_error
      /\ (data_error.tag = "Error" /\ pc = "upload" /\ pc' = pc)
            => data_error' = data_error
      /\ UploadEndsCycle
    ]_vars

\* C11 amended: ... unless the record cannot be serialized, which ends the
\* cycle and the program before the upload
C11_FailureReachesUploadUnlessSerializeFails ==
  [][ /\ FailureEndsTests
      /\ (data_error.tag = "Error" /\ pc \in {"drain", "serialize"})
            => \/ /\ pc' \in {"drain", "serialize", "upload"}
                  /\ data_error' = data_error
               \/ /\ pc = "serialize"
                  /\ pc' = "guard_kill"
                  /\ leaving' = "could not serialize result_struct"
      /\ (data_error.tag = "Error" /\ pc = "upload" /\ pc' = pc)
            => data_error' = data_error
      /\ UploadEndsCycle
    ]_vars

\* the cycle of a failed download is at its upload, the record holding Error
C11_Witness ==
  /\ pc = "upload"
  /\ data_error.tag = "Error"
  /\ events[child] = << >>

\* C12: a relay thread that reads zero bytes returns without a panic and
\* without enqueuing anything, it returns on no other read, and once it has
\* returned it reads and enqueues nothing more
C12_RelayEndsAtEof ==
  [][ \A c \in Children :
         /\ relay'[c] # relay[c]
               => IF relay[c] = "running" /\ AtEof(c)
                    THEN /\ relay'[c] = "returned"
                         /\ sent'[c] = sent[c]
                         /\ nRead'[c] <= nRead[c]
                    ELSE /\ relay'[c] # "returned"
                         /\ relay[c] # "returned"
         /\ relay[c] = "returned"
               => /\ nRead'[c] <= nRead[c]
                  /\ Len(sent'[c]) <= Len(sent[c])
    ]_vars

\* the relay thread has returned at the end of the stream and the probe loop
\* has drained the one line of the channel
C12_Witness ==
  /\ pc = "serialize"
  /\ relay[child] = "returned"
  /\ rxAlive[child]
  /\ geph_stderr = << 2 >>

\* the positions of main inside the probe cycle
ProbePcs ==
  {"build_client", "get_config", "tests", "download", "drain", "serialize",
   "upload"}

\* C13: a read error in a relay thread ends that thread only: the step leaves
\* the main thread and the result record as they are, main in its probe
\* cycle can take its next step, and the channel gets no further line
C13_ReadErrorStaysInRelay ==
  [][ \A c \in Children :
         /\ (relay'[c] # relay[c] /\ relay'[c] = "read panic")
               => /\ relay[c] = "running"
                  /\ mainVars' = mainVars
                  /\ probeVars' = probeVars
                  /\ sent' = sent
                  /\ (child = c /\ pc \in ProbePcs) => ENABLED Probe
         /\ relay[c] = "read panic"
               => /\ relay'[c] = "read panic"
                  /\ Len(sent'[c]) <= Len(sent[c])
    ]_vars

\* main has reached the upload after the relay thread ended by a read error
C13_Witness ==
  /\ pc = "upload"
  /\ relay[child] = "read panic"
  /\ written[child] = << 2, 3 >>
  /\ geph_stderr = << 2 >>

\* C14: a relay thread is started only by the detector's return on the marker
\* line, for the child it returns, and that return starts one; a child's
\* thread is never started twice, and a child given up after a read of zero
\* bytes has none
C14_OneRelayPerReadyChild ==
  [][ /\ \A c \in Children :
            /\ (relay'[c] = "running" /\ relay[c] # "running")
                  => /\ relay[c] = "none"
                     /\ pc = "detect"
                     /\ pc' = "build_client"
                     /\ child = c
                     /\ \A d \in Children \ {c} : relay'[d] = relay[d]
            /\ relay[c] # "none" => relay'[c] # "none"
            /\ events[c] = << "wait" >> => relay[c] = "none"
      /\ (pc = "detect" /\ pc' = "build_client")
            => (relay[child] = "none" /\ relay'[child] = "running")
      /\ pc \in {"connect_spawn", "detect", "retry_wait"}
            => (child # 0 => relay[child] = "none")
    ]_vars

\* the first child was given up and reaped without a relay thread, the second
\* reached readiness and has one
C14_Witness ==
  /\ events[1] = << "wait" >>
  /\ relay[1] = "none"
  /\ child = 2
  /\ relay[2] = "running"
  /\ pc = "get_config"

\* C15: while a child's relay thread runs, the main thread is not in the
\* detector for that child; every read of a child's stream is made either by
\* its running relay thread, in a step that leaves the main thread where it
\* is, or by the detector on the current child before any thread has the stream
C15_OneReader ==
  [][ \A c \in Children :
         /\ relay[c] = "running"
               => ~(child = c /\ pc \in {"connect_spawn", "detect", "retry_wait"})
         /\ nRead'[c] = nRead[c] + 1
               => IF relay[c] = "running"
                    THEN mainVars' = mainVars
                    ELSE relay[c] = "none" /\ pc = "detect" /\ child = c
    ]_vars

\* the detector read the marker line, the relay thread the line after it
C15_Witness ==
  /\ pc = "get_config"
  /\ relay[child] = "running"
  /\ nRead[child] = 2
  /\ sent[child] = << 2, 1 >>

\* C16: wherever the relay thread is, main at its drain can take a step: it
\* receives a queued line, or it finds the channel empty and goes on to the
\* serialization; it leaves the drain on the first receive that finds nothing
C16_DrainNeverBlocks ==
  [][ /\ pc = "drain" => ENABLED (DrainRecv \/ DrainEnd)
      /\ (pc = "drain" /\ pc' # pc)
            => /\ pc' = "serialize"
               /\ nRecv[child] = Len(sent[child])
               /\ chanVars' = chanVars
      /\ (pc = "drain" /\ nRecv[child] = Len(sent[child]))
            => nRecv' = nRecv
    ]_vars

\* the drain has ended while the relay thread is blocked in a read of the
\* open, empty pipe
C16_Witness ==
  /\ pc = "serialize"
  /\ relay[child] = "running"
  /\ errOpen[child]
  /\ ~Avail(child)
  /\ nRecv[child] = 1

\* main is inside connect_to_geph's connect loop
ConnectPcs == {"connect_spawn", "detect", "retry_wait"}

\* C17: the exit and the entitlement flag are set by the parse of the sync
\* output and stay as they are through every spawn and retry of the call;
\* every connect-mode child is spawned with the credentials and that exit;
\* what the call returns is the exit its ready child was spawned with
C17_SameParameters ==
  [][ /\ spawned' = spawned + 1
            => /\ pc = "connect_spawn"
               /\ args'[spawned + 1] = << username, password, exit >>
      /\ pc \in ConnectPcs
            => /\ pc' \in ConnectPcs \cup {"build_client"}
                  => (exit' = exit /\ is_plus' = is_plus)
               /\ child # 0 => args[child] = << username, password, exit >>
      /\ (pc = "detect" /\ pc' = "build_client")
            => /\ args'[child] = args[child]
               /\ exit' = args[child][3]
      /\ (exit' # exit \/ is_plus' # is_plus)
            => (pc = "parse" \/ pc' = "guard_kill")
    ]_vars

\* the second child, spawned by a retry with the exit chosen before the
\* first, has become ready
C17_Witness ==
  /\ pc = "build_client"
  /\ child = 2
  /\ events[1] = << "wait" >>
  /\ exit = "free.b"
  /\ args[2] = << username, password, "free.b" >>
  /\ ~is_plus

\* C18: no relay thread ends by a failed send: whenever a relay thread
\* enqueues a line, the receiver of its channel still exists
C18_SendNeverFails == \A c \in Children : relay[c] # "send panic"

\* no message of s is the empty string
NoEmpty(s) == \A i \in 1..Len(s) : Len(Text(s[i])) > 0

\* C19: no message the probe loop has received is the empty string, and a
\* channel holds the empty string only as its last message, while the
\* detector, having read zero bytes from the current child, is giving that
\* attempt up: never the channel of a returned child
C19_NoEmptyMessageReturned ==
  /\ NoEmpty(geph_stderr)
  /\ \A c \in Children :
        \/ NoEmpty(sent[c])
        \/ /\ c = child
           /\ pc = "retry_wait"
           /\ n = 0
           /\ ~Returned(c)
           /\ NoEmpty(SubSeq(sent[c], 1, Len(sent[c]) - 1))

\* the first attempt ended with the empty string on its channel, and the
\* channel returned with the second child holds the marker line only
C19_Witness ==
  /\ pc = "build_client"
  /\ child = 2
  /\ events[1] = << "wait" >>
  /\ sent[1] = << >>
  /\ sent[2] = << 2 >>

\* C20: while the tests run data_error is Data, with one entry for each group
\* that has ended, holding one measurement for each of its iterations; at the
\* drain, the serialization and the upload it is either that Data with every
\* group of the configuration in it, or Error with no measurement; Error
\* comes only from a failed download, after which no download is made
C20_DataOrError ==
  [][ /\ pc \in {"tests", "download"}
            => /\ data_error.tag = "Data"
               /\ DOMAIN data_error.data \cap DOMAIN config = {}
      /\ (pc = "download" /\ pc' = "tests")
            => /\ result_vec = config[name]
               /\ data_error' =
                    [tag |-> "Data",
                     data |-> (name :> config[name]) @@ data_error.data]
      /\ pc \in {"drain", "serialize", "upload"}
            => /\ DOMAIN config = {}
               /\ IF data_error.tag = "Data"
                    THEN data_error.data \in Configs
                    ELSE data_error = [tag |-> "Error", data |-> << >>]
      /\ (data_error'.tag = "Error" /\ data_error.tag = "Data")
            => (pc = "download" /\ iter < config[name])
      /\ (data_error.tag = "Error" /\ pc \in ProbePcs)
            => (pc' \notin {"tests", "download"} /\ result_vec' = result_vec)
    ]_vars

\* both groups of the configuration ran without a failure and the record at
\* the upload holds an entry for each
C20_Witness ==
  /\ pc = "upload"
  /\ data_error = [tag |-> "Data", data |-> << 1, 1 >>]

====
